---------------------------- MODULE Spec2Model ----------------------------
(***************************************************************************)
(* Contact scraper: the spreadsheet batch program (process.py), the        *)
(* single-URL program (web.py) and the HTTP front end (app.py).            *)
(*                                                                         *)
(* Strings are sequences of one-character strings, so that the string and  *)
(* regular-expression operations of the source are computed, not assumed.  *)
(* A comma-joined output field is the sequence of the joined items.        *)
(***************************************************************************)
EXTENDS Integers, Sequences, FiniteSets, TLC

VARIABLES
    \* ---- process.py : main / get_contact_info
    pc,           \* position of main / get_contact_info
    input_file,   \* what is at the input path: "missing", "corrupt" or a table
    df,           \* the parsed table: a sequence of columns
    url_column,   \* index of the chosen column, 0 for None
    max_score,    \* best column score, -1 before any column is scored
    urls,         \* resolved targets, in discovery order
    browser,      \* "none", "open", "closed"
    launches,     \* number of chromium.launch() calls
    closes,       \* number of browser.close() calls
    results,      \* the records appended so far
    idx,          \* 1-based position of the loop over urls
    url,          \* the normalised url of the running get_contact_info
    page,         \* the local `page`: 0 for None, else a page id
    openPages,    \* ids of the pages that are open in the browser
    loaded,       \* what the page of the running step shows
    found,        \* emails and unique phones extracted by the running step
    retval,       \* the record get_contact_info is about to return
    log,          \* stderr tags printed by the running get_contact_info
    debug_files,  \* whether error_screenshot.png / error_page.html were written
    output_file,  \* [written, rows]: the output CSV
    exit_code,    \* -1 while running, else the exit status
    fatal,        \* origin of the error that ended the run, "none" if none
    \* ---- web.py : main / extract_contact_info
    w_pc,         \* position of main / extract_contact_info
    w_url,        \* the url argument
    w_browser,    \* "none", "open", "closed"
    w_launches,   \* number of chromium.launch() calls
    w_closes,     \* number of browser.close() calls
    w_pageOpen,   \* whether the page of the run is open
    w_emails,     \* the local `emails`
    w_phones,     \* the local `phones`, filter_phones' result
    w_links,      \* the local `links`
    w_data,       \* the returned dict, NoData before the return
    w_output,     \* the data row written to the output CSV, <<>> if none
    w_exit,       \* -1 while running, else the exit status
    w_fatal,      \* origin of an uncaught exception, "none" if none
    w_log,        \* tags of the messages printed by extract_contact_info
    \* ---- app.py : scrape, one handler thread per request
    a_pc, a_req, a_out, a_files, a_resp

batchVars == <<pc, input_file, df, url_column, max_score, urls, browser,
               launches, closes, results, idx, url, page, openPages, loaded,
               found, retval, log, debug_files, output_file, exit_code, fatal>>
webVars == <<w_pc, w_url, w_browser, w_launches, w_closes, w_pageOpen,
             w_emails, w_phones, w_links, w_data, w_output, w_exit, w_fatal,
             w_log>>
appVars == <<a_pc, a_req, a_out, a_files, a_resp>>
vars == <<batchVars, webVars, appVars>>

-----------------------------------------------------------------------------
(* Characters and strings *)

Digits == {"0", "1", "2", "3", "4", "5", "6", "7", "8", "9"}
Lowercase == {"a", "b", "c", "d", "e", "f", "g", "h", "i", "k", "l", "m", "n",
              "o", "p", "r", "s", "t", "u", "x", "y"}
Uppercase == {"C", "O", "X"}
Whitespace == {" ", "\t", "\n"}

IsDigit(c) == c \in Digits
IsSpace(c) == c \in Whitespace

\* str.lower(), character by character
LowerChar(c) ==
    CASE c = "C" -> "c"
      [] c = "O" -> "o"
      [] c = "X" -> "x"
      [] OTHER -> c
Lower(s) == [k \in 1..Len(s) |-> LowerChar(s[k])]

\* `t in s` for strings
Contains(s, t) ==
    \E k \in 1..(Len(s) + 1) :
        /\ k + Len(t) - 1 <= Len(s)
        /\ SubSeq(s, k, k + Len(t) - 1) = t

\* s.startswith(t)
StartsWith(s, t) == Len(s) >= Len(t) /\ SubSeq(s, 1, Len(t)) = t

\* index of the first character of s that is in set cs, 0 if none (str.find)
RECURSIVE FindFrom(_, _, _)
FindFrom(s, cs, k) ==
    IF k > Len(s) THEN 0
    ELSE IF s[k] \in cs THEN k
    ELSE FindFrom(s, cs, k + 1)
Find(s, cs) == FindFrom(s, cs, 1)

\* index of the last character of s that is in set cs, 0 if none (str.rfind)
RECURSIVE RFindFrom(_, _, _)
RFindFrom(s, cs, k) ==
    IF k < 1 THEN 0
    ELSE IF s[k] \in cs THEN k
    ELSE RFindFrom(s, cs, k - 1)
RFind(s, cs) == RFindFrom(s, cs, Len(s))

\* str.strip()
RECURSIVE LStrip(_)
LStrip(s) == IF s # <<>> /\ IsSpace(Head(s)) THEN LStrip(Tail(s)) ELSE s
RECURSIVE RStrip(_)
RStrip(s) ==
    IF s # <<>> /\ IsSpace(s[Len(s)]) THEN RStrip(SubSeq(s, 1, Len(s) - 1)) ELSE s
Strip(s) == RStrip(LStrip(s))

\* s without the characters in drop: s.replace(c, "")
RECURSIVE DropChars(_, _)
DropChars(s, drop) ==
    IF s = <<>> THEN <<>>
    ELSE IF Head(s) \in drop THEN DropChars(Tail(s), drop)
    ELSE <<Head(s)>> \o DropChars(Tail(s), drop)

\* the characters of s that are in keep
RECURSIVE FilterChars(_, _)
FilterChars(s, keep) ==
    IF s = <<>> THEN <<>>
    ELSE IF Head(s) \in keep THEN <<Head(s)>> \o FilterChars(Tail(s), keep)
    ELSE FilterChars(Tail(s), keep)

\* some ordering of a finite set: ", ".join(a_set)
Orderings(S) ==
    {q \in [1..Cardinality(S) -> S] : \A a, b \in 1..Cardinality(S) : a # b => q[a] # q[b]}


-----------------------------------------------------------------------------
(* process.py: patterns and helpers *)

\* re.fullmatch(r"\d{4}[-/]\d{2}[-/]\d{2}", s)
MatchYMD(s) ==
    /\ Len(s) = 10
    /\ \A k \in {1, 2, 3, 4, 6, 7, 9, 10} : IsDigit(s[k])
    /\ s[5] \in {"-", "/"}
    /\ s[8] \in {"-", "/"}

\* re.fullmatch(r"\d{4}[-/]\d{2}", s)
MatchYM(s) ==
    /\ Len(s) = 7
    /\ \A k \in {1, 2, 3, 4, 6, 7} : IsDigit(s[k])
    /\ s[5] \in {"-", "/"}

\* re.fullmatch(r"\d{4}", s)
MatchY(s) == Len(s) = 4 /\ \A k \in 1..4 : IsDigit(s[k])

DateMaxLen == 10

\* process.py is_date: spaces removed, longer than 10 characters is no date
is_date(string) ==
    LET string_clean == DropChars(string, {" "})
    IN  IF Len(string_clean) > DateMaxLen THEN FALSE
        ELSE IF MatchYMD(string_clean) THEN TRUE
        ELSE IF MatchYM(string_clean) \/ MatchY(string_clean) THEN TRUE
        ELSE FALSE

\* process.py clean_phone: the digits of the match
clean_phone(phone) == FilterChars(phone, Digits)

\* phone_pattern r"(\+?\d[\d\s().-]{7,}\d)" matches the whole of s
PhoneInner == Digits \cup Whitespace \cup {"(", ")", ".", "-"}
PhoneMinInner == 7
PhonePatternMatches(s) ==
    LET t == IF s # <<>> /\ Head(s) = "+" THEN Tail(s) ELSE s
    IN  /\ Len(t) >= PhoneMinInner + 2
        /\ IsDigit(t[1])
        /\ IsDigit(t[Len(t)])
        /\ \A k \in 2..(Len(t) - 1) : t[k] \in PhoneInner

\* urllib.parse.urlsplit: the scheme, "" if the text before ':' is no scheme
SchemeChars == Lowercase \cup Uppercase \cup Digits \cup {"+", "-", "."}
UrlScheme(u) ==
    LET c == Find(u, {":"})
    IN  IF c > 1 /\ u[1] \in (Lowercase \cup Uppercase)
             /\ \A k \in 1..(c - 1) : u[k] \in SchemeChars
        THEN Lower(SubSeq(u, 1, c - 1))
        ELSE <<>>

\* urllib.parse.urlsplit: the netloc, the text between "//" and the next / ? #
UrlNetloc(u) ==
    LET c    == Find(u, {":"})
        rest == IF UrlScheme(u) # <<>> THEN SubSeq(u, c + 1, Len(u)) ELSE u
        body == SubSeq(rest, 3, Len(rest))
        stop == Find(body, {"/", "?", "#"})
    IN  IF StartsWith(rest, <<"/", "/">>)
        THEN IF stop = 0 THEN body ELSE SubSeq(body, 1, stop - 1)
        ELSE <<>>

\* process.py is_valid_url
is_valid_url(u) == UrlScheme(u) # <<>> /\ UrlNetloc(u) # <<>>

\* get_contact_info, the first statement: prefix https:// unless the target
\* starts with "http"
NormaliseUrl(u) ==
    IF ~ StartsWith(u, <<"h", "t", "t", "p">>)
    THEN <<"h", "t", "t", "p", "s", ":", "/", "/">> \o u
    ELSE u

\* one of the longest elements of a non-empty set of strings
Longest(S) == CHOOSE p \in S : \A q \in S : Len(q) <= Len(p)

\* get_contact_info: `for phone in sorted(cleaned_phones, key=len, reverse=True)`
\* keeping a phone unless a kept one contains it. Equal-length phones cannot
\* contain one another, so the order among them does not change the result.
RECURSIVE UniqueFrom(_, _)
UniqueFrom(todo, unique_phones) ==
    IF todo = {} THEN unique_phones
    ELSE LET phone == Longest(todo)
         IN  IF ~ \E p \in unique_phones : Contains(p, phone)
             THEN UniqueFrom(todo \ {phone}, unique_phones \cup {phone})
             ELSE UniqueFrom(todo \ {phone}, unique_phones)

\* get_contact_info: the phones kept from the raw matches of a page
BatchPhones(phones) ==
    LET cleaned_phones == {clean_phone(p) : p \in {q \in phones : ~ is_date(q)}}
    IN  UniqueFrom(cleaned_phones, {})

\* social_patterns: r"<domain>\.com/[^\s\"'<>]+" found somewhere in link
Platforms == <<"facebook", "instagram", "linkedin">>
PlatformPrefix(platform) ==
    CASE platform = "facebook" ->
           <<"f", "a", "c", "e", "b", "o", "o", "k", ".", "c", "o", "m", "/">>
      [] platform = "instagram" ->
           <<"i", "n", "s", "t", "a", "g", "r", "a", "m", ".", "c", "o", "m", "/">>
      [] platform = "linkedin" ->
           <<"l", "i", "n", "k", "e", "d", "i", "n", ".", "c", "o", "m", "/">>
SocialStop == Whitespace \cup {"\"", "'", "<", ">"}
PatternSearch(platform, link) ==
    LET pre == PlatformPrefix(platform)
    IN  \E k \in 1..Len(link) :
            /\ k + Len(pre) <= Len(link)
            /\ SubSeq(link, k, k + Len(pre) - 1) = pre
            /\ link[k + Len(pre)] \notin SocialStop

NoSocials == [facebook |-> <<>>, instagram |-> <<>>, linkedin |-> <<>>]

\* process.py lines 81-83: every platform is tried for the link, and a platform
\* that already has a value keeps it
RECURSIVE BatchPlatformLoop(_, _, _)
BatchPlatformLoop(socials, link, k) ==
    IF k > Len(Platforms) THEN socials
    ELSE LET platform == Platforms[k]
         IN  IF PatternSearch(platform, link) /\ socials[platform] = <<>>
             THEN BatchPlatformLoop([socials EXCEPT ![platform] = link], link, k + 1)
             ELSE BatchPlatformLoop(socials, link, k + 1)

\* process.py lines 79-83
RECURSIVE BatchSocialsFrom(_, _)
BatchSocialsFrom(socials, links) ==
    IF links = <<>> THEN socials
    ELSE BatchSocialsFrom(BatchPlatformLoop(socials, Head(links), 1), Tail(links))
BatchSocials(links) == BatchSocialsFrom(NoSocials, links)

EmptyRecord(u) ==
    [url |-> u, emails |-> <<>>, phones |-> <<>>,
     facebook |-> <<>>, instagram |-> <<>>, linkedin |-> <<>>]

MakeRecord(u, emails, phones, socials) ==
    [url |-> u, emails |-> emails, phones |-> phones,
     facebook |-> socials.facebook, instagram |-> socials.instagram,
     linkedin |-> socials.linkedin]

-----------------------------------------------------------------------------
(* process.py main: the input table and the target resolution *)

\* a missing cell (pandas NaN); every other cell is a string
NaN == <<"NaN">>

SampleSize == 20
MinParts == 2

\* df[col].dropna()
DropNa(col) == SelectSeq(col, LAMBDA c : c # NaN)

\* .head(20)
HeadRows(col) == SubSeq(col, 1, IF Len(col) < SampleSize THEN Len(col) ELSE SampleSize)

\* line 129: the sample looks like a URL or an email
LooksLikeTarget(s) ==
    \/ Contains(s, <<"@">>)
    \/ Contains(s, <<".", "c", "o", "m">>)
    \/ \E tld \in {<<".", "n", "e", "t">>, <<".", "o", "r", "g">>,
                   <<".", "i", "o">>, <<".", "c", "o">>} : Contains(s, tld)

\* lines 120-130: the score of one column's samples
ColumnScore(samples) ==
    Cardinality({k \in 1..Len(samples) : LooksLikeTarget(Lower(samples[k]))})

\* lines 119-134: <<url_column, max_score>> after the columns from k on
RECURSIVE SelectFrom(_, _, _, _)
SelectFrom(table, k, best_col, best) ==
    IF k > Len(table) THEN <<best_col, best>>
    ELSE LET samples == HeadRows(DropNa(table[k]))
             score   == ColumnScore(samples)
         IN  IF samples = <<>> THEN SelectFrom(table, k + 1, best_col, best)
             ELSE IF score > best THEN SelectFrom(table, k + 1, k, score)
             ELSE SelectFrom(table, k + 1, best_col, best)
SelectColumnOf(table) == SelectFrom(table, 1, 0, -1)

\* line 144: the stripped non-missing cells of the column
ColumnValues(col) == LET kept == DropNa(col) IN [k \in 1..Len(kept) |-> Strip(kept[k])]

\* v.split('.'): the number of parts and the first part
NumParts(v) == Len(FilterChars(v, {"."})) + 1
FirstPart(v) == LET d == Find(v, {"."}) IN IF d = 0 THEN v ELSE SubSeq(v, 1, d - 1)

\* v.split('@')[-1]
EmailDomain(v) == SubSeq(v, RFind(v, {"@"}) + 1, Len(v))

Elements(q) == {q[k] : k \in 1..Len(q)}

\* lines 146-166: the loop over values, `seen` being the targets kept so far
RECURSIVE ExtractFrom(_, _)
ExtractFrom(values, kept) ==
    IF values = <<>> THEN kept
    ELSE LET v      == Head(values)
             seen   == Elements(kept)
             domain == EmailDomain(v)
         IN  IF v = <<>> THEN ExtractFrom(Tail(values), kept)
             ELSE IF Contains(v, <<"@">>)
             THEN IF domain # <<>> /\ domain \notin seen
                  THEN ExtractFrom(Tail(values), Append(kept, domain))
                  ELSE ExtractFrom(Tail(values), kept)
             ELSE IF Contains(v, <<".">>) /\ ~ Contains(Strip(v), <<" ">>)
             THEN IF NumParts(v) >= MinParts /\ FirstPart(v) # <<>> /\ v \notin seen
                  THEN ExtractFrom(Tail(values), Append(kept, v))
                  ELSE ExtractFrom(Tail(values), kept)
             ELSE ExtractFrom(Tail(values), kept)
ExtractTargetsOf(col) == ExtractFrom(ColumnValues(col), <<>>)

-----------------------------------------------------------------------------
(* Inputs of the batch program *)

MaxCols == 2

ColumnSamples ==
    { \* names only: samples score 0
      << <<"b", "o", "b">>, NaN, <<"b", "o", "b">> >>,
      \* no value at all: skipped by the scoring loop
      << NaN, NaN, NaN >>,
      \* two emails of one domain
      << <<"a", "@", "x", ".", "c", "o">>, NaN, <<"b", "@", "x", ".", "c", "o">> >>,
      \* an upper-case email domain, a padded site whose normalised form is no
      \* valid URL, and a valid site
      << <<"b", "@", "X", ".", "C", "O">>, <<"h", "t", "t", "p", ".", "c", "o", " ">>,
         <<"y", ".", "i", "o">> >>,
      \* two sites, one of them twice
      << <<"y", ".", "i", "o">>, <<"x", ".", "c", "o">>, <<"y", ".", "i", "o">> >>,
      \* URL-like to the scoring, but no target can be extracted
      << <<"a", " ", "b", ".", "c", "o">>, <<"b", "o", "b", "@">>,
         <<".", "c", "o">> >> }

Tables == UNION {[1..n -> ColumnSamples] : n \in 0..MaxCols}

InputFiles ==
    {[state |-> "missing", table |-> <<>>], [state |-> "corrupt", table |-> <<>>]}
      \cup {[state |-> "ok", table |-> t] : t \in Tables}

LINK_FB_A == <<"h", "t", "t", "p", "s", ":", "/", "/", "f", "a", "c", "e", "b", "o", "o", "k", ".", "c", "o", "m", "/", "a">>
LINK_FB_B == <<"h", "t", "t", "p", "s", ":", "/", "/", "f", "a", "c", "e", "b", "o", "o", "k", ".", "c", "o", "m", "/", "b">>
LINK_IG_A == <<"h", "t", "t", "p", "s", ":", "/", "/", "i", "n", "s", "t", "a", "g", "r", "a", "m", ".", "c", "o", "m", "/", "a">>
LINK_LI_A == <<"h", "t", "t", "p", "s", ":", "/", "/", "l", "i", "n", "k", "e", "d", "i", "n", ".", "c", "o", "m", "/", "a">>
LINK_OTHER == <<"h", "t", "t", "p", "s", ":", "/", "/", "x", ".", "c", "o", "/", "a">>
\* a facebook share link that carries an instagram address
LINK_FB_IG == <<"h", "t", "t", "p", "s", ":", "/", "/", "f", "a", "c", "e", "b", "o", "o", "k", ".", "c", "o", "m", "/", "s", "?", "u", "=", "i", "n", "s", "t", "a", "g", "r", "a", "m", ".", "c", "o", "m", "/", "a">>

\* the pages a navigation can load: the email matches and the raw phone
\* matches of the rendered HTML, and the hrefs of its anchors
BlankPage == [emails |-> {}, phones |-> {}, links |-> <<>>]
PageSamples ==
    { BlankPage,
      [emails |-> {<<"s", "@", "y", ".", "i", "o">>},
       phones |-> { <<"+", "1", " ", "5", "5", "5", "-", "1", "2", "3", "4">>,
                    <<"5", "5", "5", " ", "-", " ", "1", "2", "3", "4">>,
                    <<"2", "0", "2", "3", "-", "0", "5", "-", "0", "1">> },
       links |-> <<LINK_OTHER, LINK_FB_A, LINK_FB_B>>],
      [emails |-> {},
       phones |-> { <<"1", "2", " ", "3", "4", " ", "5", "6", " ", "7">>,
                    <<"1", "9", "9", "0", "-", "1", "9", "9", "9">> },
       links |-> <<LINK_FB_IG, LINK_IG_A, LINK_LI_A>>] }

-----------------------------------------------------------------------------
(* web.py: helpers *)

\* web.py is_date: spaces removed, no length test
web_is_date(string) ==
    LET string_clean == DropChars(string, {" "})
    IN  IF MatchYMD(string_clean) THEN TRUE
        ELSE IF MatchYM(string_clean) \/ MatchY(string_clean) THEN TRUE
        ELSE FALSE

\* re.sub(r"\s+", " ", phone): every whitespace run becomes one space
RECURSIVE CollapseSpaces(_)
CollapseSpaces(s) ==
    IF s = <<>> THEN <<>>
    ELSE IF IsSpace(Head(s))
    THEN <<" ">> \o CollapseSpaces(LStrip(s))
    ELSE <<Head(s)>> \o CollapseSpaces(Tail(s))

\* re.match(r"^\d{4}\s*[-\u2013]\s*\d{4}$", s); "ndash" stands for the en dash
Dashes == {"-", "ndash"}
IsRange(s) ==
    /\ Len(s) >= 9
    /\ \A k \in 1..4 : IsDigit(s[k])
    /\ \A k \in (Len(s) - 3)..Len(s) : IsDigit(s[k])
    /\ \E d \in 5..(Len(s) - 4) :
          /\ s[d] \in Dashes
          /\ \A k \in 5..(Len(s) - 4) : k # d => IsSpace(s[k])

\* the position after a run of one or more (\d\s+) groups starting at k:
\* 0 if no group starts at k, else <<groups, position>> of the greedy match
RECURSIVE SkipSpaces(_, _)
SkipSpaces(s, k) == IF k <= Len(s) /\ IsSpace(s[k]) THEN SkipSpaces(s, k + 1) ELSE k
RECURSIVE DigitGroups(_, _, _)
DigitGroups(s, k, n) ==
    IF k + 1 <= Len(s) /\ IsDigit(s[k]) /\ IsSpace(s[k + 1])
    THEN DigitGroups(s, SkipSpaces(s, k + 1), n + 1)
    ELSE <<n, k>>

MinGroups == 3
\* re.match(r"(\d\s+){3,}\d", s): at least three groups, then a digit. After
\* a group the next character is no whitespace, so it is the digit that either
\* opens the next group or ends the match.
IsSpacedDigits(s) ==
    LET g == DigitGroups(s, 1, 0)
    IN  /\ g[1] >= MinGroups
        /\ \/ g[2] <= Len(s) /\ IsDigit(s[g[2]])
           \/ g[1] > MinGroups

MinDigits == 8

\* web.py filter_phones, the loop body: whether the candidate is kept
KeepsPhone(cleaned) ==
    IF web_is_date(cleaned) THEN FALSE
    ELSE IF IsRange(cleaned) THEN FALSE
    ELSE IF IsSpacedDigits(cleaned) THEN FALSE
    ELSE IF Len(FilterChars(cleaned, Digits)) < MinDigits THEN FALSE
    ELSE TRUE

\* web.py filter_phones: the set behind the returned list
filter_phones(phones) ==
    LET cleaned == [k \in 1..Len(phones) |-> Strip(CollapseSpaces(phones[k]))]
    IN  {cleaned[k] : k \in {j \in 1..Len(phones) : KeepsPhone(cleaned[j])}}

\* web.py lines 57-60: the first platform whose pattern matches the link takes
\* it, replacing what it had, and the loop over platforms stops
RECURSIVE WebPlatformLoop(_, _, _)
WebPlatformLoop(socials, link, k) ==
    IF k > Len(Platforms) THEN socials
    ELSE LET platform == Platforms[k]
         IN  IF PatternSearch(platform, link)
             THEN [socials EXCEPT ![platform] = link]
             ELSE WebPlatformLoop(socials, link, k + 1)

\* web.py lines 55-60
RECURSIVE WebSocialsFrom(_, _)
WebSocialsFrom(socials, links) ==
    IF links = <<>> THEN socials
    ELSE WebSocialsFrom(WebPlatformLoop(socials, Head(links), 1), Tail(links))
WebSocials(links) == WebSocialsFrom(NoSocials, links)

-----------------------------------------------------------------------------
(* process.py: the batch run *)

BatchStart ==
    /\ pc = "read"
    /\ df = <<>>
    /\ url_column = 0
    /\ max_score = -1
    /\ urls = <<>>
    /\ browser = "none"
    /\ launches = 0
    /\ closes = 0
    /\ results = <<>>
    /\ idx = 0
    /\ url = <<>>
    /\ page = 0
    /\ openPages = {}
    /\ loaded = BlankPage
    /\ found = [emails |-> {}, phones |-> {}]
    /\ retval = EmptyRecord(<<>>)
    /\ log = {}
    /\ debug_files = "none"
    /\ output_file = [written |-> FALSE, rows |-> <<>>]
    /\ exit_code = -1
    /\ fatal = "none"

BatchInit == input_file \in InputFiles /\ BatchStart

\* the batch program does not run
BatchIdle == input_file = [state |-> "missing", table |-> <<>>] /\ BatchStart

\* sys.exit(1) after a one-line diagnostic
ExitWith(reason) ==
    /\ pc' = "exited"
    /\ exit_code' = 1
    /\ fatal' = reason

\* main lines 107-112 with the handlers of lines 169-174: reading the table
ReadInput ==
    /\ pc = "read"
    /\ \/ /\ input_file.state = "missing"
          /\ ExitWith("file_not_found")
          /\ UNCHANGED df
       \/ /\ input_file.state = "corrupt"
          /\ ExitWith("unreadable")
          /\ UNCHANGED df
       \/ /\ input_file.state = "ok"
          /\ df' = input_file.table
          /\ pc' = "select"
          /\ UNCHANGED <<exit_code, fatal>>
    /\ UNCHANGED <<input_file, url_column, max_score, urls, browser, launches,
                   closes, results, idx, url, page, openPages, loaded, found,
                   retval, log, debug_files, output_file>>
    /\ UNCHANGED <<webVars, appVars>>

\* main lines 115-140: choosing the column
SelectColumn ==
    /\ pc = "select"
    /\ LET sel == SelectColumnOf(df)
       IN  /\ url_column' = sel[1]
           /\ max_score' = sel[2]
           /\ IF sel[1] = 0 \/ sel[2] = 0
              THEN ExitWith("no_column")
              ELSE pc' = "extract" /\ UNCHANGED <<exit_code, fatal>>
    /\ UNCHANGED <<input_file, df, urls, browser, launches, closes, results,
                   idx, url, page, openPages, loaded, found, retval, log,
                   debug_files, output_file>>
    /\ UNCHANGED <<webVars, appVars>>

\* a slip: the test of line 176 for an empty target list is missing
ExtractTargets_NoEmptyCheck ==
    /\ pc = "extract"
    /\ urls' = ExtractTargetsOf(df[url_column])
    /\ pc' = "launch"
    /\ UNCHANGED <<input_file, df, url_column, max_score, browser, launches,
                   closes, results, idx, url, page, openPages, loaded, found,
                   retval, log, debug_files, output_file, exit_code, fatal>>
    /\ UNCHANGED <<webVars, appVars>>

\* main lines 142-178: extracting the targets, and leaving when there is none
ExtractTargets ==
    /\ pc = "extract"
    /\ urls' = ExtractTargetsOf(df[url_column])
    /\ IF urls' = <<>>
       THEN ExitWith("no_targets")
       ELSE pc' = "launch" /\ UNCHANGED <<exit_code, fatal>>
    /\ UNCHANGED <<input_file, df, url_column, max_score, browser, launches,
                   closes, results, idx, url, page, openPages, loaded, found,
                   retval, log, debug_files, output_file>>
    /\ UNCHANGED <<webVars, appVars>>

\* main lines 180-182: the session is launched
Launch ==
    /\ pc = "launch"
    /\ browser' = "open"
    /\ launches' = launches + 1
    /\ results' = <<>>
    /\ idx' = 1
    /\ pc' = "loop"
    /\ UNCHANGED <<input_file, df, url_column, max_score, urls, closes, url,
                   page, openPages, loaded, found, retval, log, debug_files,
                   output_file, exit_code, fatal>>
    /\ UNCHANGED <<webVars, appVars>>

\* a slip: a target that is no valid URL is skipped without a record
LoopNext_SkipsInvalid ==
    /\ pc = "loop"
    /\ \/ /\ idx <= Len(urls)
          /\ ~ is_valid_url(NormaliseUrl(urls[idx]))
          /\ url' = NormaliseUrl(urls[idx])
          /\ log' = {"INVALID"}
          /\ idx' = idx + 1
          /\ UNCHANGED <<pc, page, loaded, found, results>>
       \/ /\ idx <= Len(urls)
          /\ is_valid_url(NormaliseUrl(urls[idx]))
          /\ url' = NormaliseUrl(urls[idx])
          /\ log' = {}
          /\ page' = 0
          /\ loaded' = BlankPage
          /\ found' = [emails |-> {}, phones |-> {}]
          /\ pc' = "new_page"
          /\ UNCHANGED <<results, idx>>
       \/ /\ idx > Len(urls)
          /\ pc' = "close_browser"
          /\ UNCHANGED <<url, log, page, loaded, found, results, idx>>
    /\ UNCHANGED <<input_file, df, url_column, max_score, urls, browser,
                   launches, closes, openPages, retval, debug_files,
                   output_file, exit_code, fatal>>
    /\ UNCHANGED <<webVars, appVars>>

\* main lines 183-186 and get_contact_info lines 36-43: the next target is
\* taken; a target that is no valid URL returns its empty record at once
LoopNext ==
    /\ pc = "loop"
    /\ \/ /\ idx <= Len(urls)
          /\ ~ is_valid_url(NormaliseUrl(urls[idx]))
          /\ url' = NormaliseUrl(urls[idx])
          /\ log' = {"INVALID"}
          /\ results' = Append(results, EmptyRecord(url'))
          /\ idx' = idx + 1
          /\ UNCHANGED <<pc, page, loaded, found>>
       \/ /\ idx <= Len(urls)
          /\ is_valid_url(NormaliseUrl(urls[idx]))
          /\ url' = NormaliseUrl(urls[idx])
          /\ log' = {}
          /\ page' = 0
          /\ loaded' = BlankPage
          /\ found' = [emails |-> {}, phones |-> {}]
          /\ pc' = "new_page"
          /\ UNCHANGED <<results, idx>>
       \/ /\ idx > Len(urls)
          /\ pc' = "close_browser"
          /\ UNCHANGED <<url, log, page, loaded, found, results, idx>>
    /\ UNCHANGED <<input_file, df, url_column, max_score, urls, browser,
                   launches, closes, openPages, retval, debug_files,
                   output_file, exit_code, fatal>>
    /\ UNCHANGED <<webVars, appVars>>

\* get_contact_info line 45: browser.new_page()
NewPage ==
    /\ pc = "new_page"
    /\ \/ /\ page' = idx
          /\ openPages' = openPages \cup {idx}
          /\ pc' = "goto"
       \/ /\ pc' = "except"
          /\ UNCHANGED <<page, openPages>>
    /\ UNCHANGED <<input_file, df, url_column, max_score, urls, browser,
                   launches, closes, results, idx, url, loaded, found, retval,
                   log, debug_files, output_file, exit_code, fatal>>
    /\ UNCHANGED <<webVars, appVars>>

\* get_contact_info line 47: page.goto(url); a failed navigation may be one
\* that lost the page (crash, page closed by the site)
Goto ==
    /\ pc = "goto"
    /\ \/ /\ loaded' \in PageSamples
          /\ pc' = "get_href"
          /\ UNCHANGED openPages
       \/ /\ pc' = "except"
          /\ \E lost \in BOOLEAN :
                openPages' = IF lost THEN openPages \ {page} ELSE openPages
          /\ UNCHANGED loaded
    /\ UNCHANGED <<input_file, df, url_column, max_score, urls, browser,
                   launches, closes, results, idx, url, page, found, retval,
                   log, debug_files, output_file, exit_code, fatal>>
    /\ UNCHANGED <<webVars, appVars>>

\* where a failure of the contact-page hop continues (lines 59-60)
HopFailure ==
    /\ log' = log \cup {"DEBUG_NO_CONTACT"}
    /\ pc' = "content"

\* get_contact_info lines 52-56: the href of the first contact/about/support
\* anchor: found, absent or empty, or the query times out
GetHref ==
    /\ pc = "get_href"
    /\ \/ /\ log' = log \cup {"INFO_CONTACT"}
          /\ pc' = "goto_contact"
       \/ /\ pc' = "content"
          /\ UNCHANGED log
       \/ HopFailure
    /\ UNCHANGED <<input_file, df, url_column, max_score, urls, browser,
                   launches, closes, results, idx, url, page, openPages,
                   loaded, found, retval, debug_files, output_file, exit_code,
                   fatal>>
    /\ UNCHANGED <<webVars, appVars>>

\* a slip: the second navigation stands outside the inner try, so its
\* failure reaches the handler of line 86
GotoContact_FailureRaises ==
    /\ pc = "goto_contact"
    /\ \/ /\ loaded' \in PageSamples
          /\ pc' = "content"
          /\ UNCHANGED log
       \/ /\ pc' = "except"
          /\ loaded' \in PageSamples \cup {loaded}
          /\ UNCHANGED log
    /\ UNCHANGED <<input_file, df, url_column, max_score, urls, browser,
                   launches, closes, results, idx, url, page, openPages,
                   found, retval, debug_files, output_file, exit_code, fatal>>
    /\ UNCHANGED <<webVars, appVars>>

\* get_contact_info line 58: page.goto(contact_url); when it fails the page
\* shows the first page still or whatever the navigation had loaded
GotoContact ==
    /\ pc = "goto_contact"
    /\ \/ /\ loaded' \in PageSamples
          /\ pc' = "content"
          /\ UNCHANGED log
       \/ /\ HopFailure
          /\ loaded' \in PageSamples \cup {loaded}
    /\ UNCHANGED <<input_file, df, url_column, max_score, urls, browser,
                   launches, closes, results, idx, url, page, openPages,
                   found, retval, debug_files, output_file, exit_code, fatal>>
    /\ UNCHANGED <<webVars, appVars>>

\* get_contact_info lines 63-75: page.content(), the matches and the phones
Content ==
    /\ pc = "content"
    /\ \/ /\ found' = [emails |-> loaded.emails, phones |-> BatchPhones(loaded.phones)]
          /\ pc' = "links"
       \/ /\ pc' = "except"
          /\ UNCHANGED found
    /\ UNCHANGED <<input_file, df, url_column, max_score, urls, browser,
                   launches, closes, results, idx, url, page, openPages,
                   loaded, retval, log, debug_files, output_file, exit_code,
                   fatal>>
    /\ UNCHANGED <<webVars, appVars>>

\* get_contact_info lines 78-85: the links, the socials and the record
Links ==
    /\ pc = "links"
    /\ \/ /\ \E emails \in Orderings(found.emails) :
             \E phones \in Orderings(found.phones) :
                retval' = MakeRecord(url, emails, phones, BatchSocials(loaded.links))
          /\ pc' = "finally"
       \/ /\ pc' = "except"
          /\ UNCHANGED retval
    /\ UNCHANGED <<input_file, df, url_column, max_score, urls, browser,
                   launches, closes, results, idx, url, page, openPages,
                   loaded, found, log, debug_files, output_file, exit_code,
                   fatal>>
    /\ UNCHANGED <<webVars, appVars>>

\* get_contact_info lines 86-101: the handler of the step's errors; the debug
\* files are written when there is an open page, and a failure to write them
\* is caught
Except ==
    /\ pc = "except"
    /\ IF page # 0 /\ page \in openPages
       THEN \/ /\ debug_files' = "both"
               /\ log' = log \cup {"ERROR", "SAVED"}
            \/ /\ debug_files' \in {debug_files, "screenshot"}
               /\ log' = log \cup {"ERROR", "DEBUG_FAILED"}
       ELSE /\ log' = log \cup {"ERROR"}
            /\ UNCHANGED debug_files
    /\ retval' = EmptyRecord(url)
    /\ pc' = "finally"
    /\ UNCHANGED <<input_file, df, url_column, max_score, urls, browser,
                   launches, closes, results, idx, url, page, openPages,
                   loaded, found, output_file, exit_code, fatal>>
    /\ UNCHANGED <<webVars, appVars>>

\* get_contact_info returns to main line 186: results.append(result)
ReturnRecord ==
    /\ results' = Append(results, retval)
    /\ idx' = idx + 1
    /\ pc' = "loop"
    /\ UNCHANGED <<exit_code, fatal>>

\* a slip: the page is closed at the end of the try block instead of in a
\* finally clause, so the error exit leaves it open
Finally_KeepsPageOnError ==
    /\ pc = "finally"
    /\ IF page # 0 /\ page \in openPages /\ "ERROR" \notin log
       THEN \/ /\ openPages' = openPages \ {page}
               /\ ReturnRecord
            \/ /\ openPages' \in {openPages, openPages \ {page}}
               /\ ExitWith("page_close")
               /\ UNCHANGED <<results, idx>>
       ELSE /\ ReturnRecord
            /\ UNCHANGED openPages
    /\ UNCHANGED <<input_file, df, url_column, max_score, urls, browser,
                   launches, closes, url, page, loaded, found, retval, log,
                   debug_files, output_file>>
    /\ UNCHANGED <<webVars, appVars>>

\* get_contact_info lines 102-104: the page is closed if there is an open one.
\* When page.close() raises, the exception leaves get_contact_info and main
\* (lines 186-193 are skipped) and the handler of lines 206-211 exits with 1;
\* the page is then closed or not.
Finally ==
    /\ pc = "finally"
    /\ IF page # 0 /\ page \in openPages
       THEN \/ /\ openPages' = openPages \ {page}
               /\ ReturnRecord
            \/ /\ openPages' \in {openPages, openPages \ {page}}
               /\ ExitWith("page_close")
               /\ UNCHANGED <<results, idx>>
       ELSE /\ ReturnRecord
            /\ UNCHANGED openPages
    /\ UNCHANGED <<input_file, df, url_column, max_score, urls, browser,
                   launches, closes, url, page, loaded, found, retval, log,
                   debug_files, output_file>>
    /\ UNCHANGED <<webVars, appVars>>

\* main line 187: browser.close(), which closes the pages left open too
CloseBrowser ==
    /\ pc = "close_browser"
    /\ browser' = "closed"
    /\ closes' = closes + 1
    /\ openPages' = {}
    /\ pc' = "write"
    /\ UNCHANGED <<input_file, df, url_column, max_score, urls, launches,
                   results, idx, url, page, loaded, found, retval, log,
                   debug_files, output_file, exit_code, fatal>>
    /\ UNCHANGED <<webVars, appVars>>

\* main lines 189-195: the rows are written and the program ends
WriteOutput ==
    /\ pc = "write"
    /\ output_file' = [written |-> TRUE, rows |-> results]
    /\ exit_code' = 0
    /\ pc' = "done"
    /\ UNCHANGED <<input_file, df, url_column, max_score, urls, browser,
                   launches, closes, results, idx, url, page, openPages,
                   loaded, found, retval, log, debug_files, fatal>>
    /\ UNCHANGED <<webVars, appVars>>

BatchNext ==
    \/ ReadInput
    \/ SelectColumn
    \/ ExtractTargets
    \/ Launch
    \/ LoopNext
    \/ NewPage
    \/ Goto
    \/ GetHref
    \/ GotoContact
    \/ Content
    \/ Links
    \/ Except
    \/ Finally
    \/ CloseBrowser
    \/ WriteOutput

-----------------------------------------------------------------------------
(* web.py: the single-URL run *)

MaxRawPhones == 2
MaxLinks == 2

\* raw matches of phone_pattern in a page's text
PhoneSamples ==
    { <<"2", "0", "2", "3", "-", "0", "5", "-", "0", "1">>,
      <<"1", "9", "9", "0", "-", "1", "9", "9", "9">>,
      <<"1", "2", " ", "3", "4", " ", "5", "6", " ", "7">>,
      <<"+", "1", " ", "5", "5", "5", "-", "1", "2", "3", "4">>,
      <<"5", "5", "5", " ", "\n", " ", "1", "2", "3", "4", "5">>,
      <<"1", " ", "2", " ", "3", " ", "4", " ", "5", " ", "6", " ", "7", " ", "8">> }

RawPhoneMatches == {p \in PhoneSamples : PhonePatternMatches(p)}

LinkSamples == {LINK_FB_A, LINK_FB_B, LINK_IG_A, LINK_LI_A, LINK_OTHER, LINK_FB_IG}

EmailSamples == {{}, {<<"s", "@", "y", ".", "i", "o">>}}

SeqsUpTo(S, n) == UNION {[1..k -> S] : k \in 0..n}

WebUrls == {<<"y", ".", "i", "o">>, <<"h", "t", "t", "p", ":", "/", "/", "y", ".", "i", "o">>}

NoData == [email |-> <<>>, phone |-> <<>>, facebook |-> <<>>,
           instagram |-> <<>>, linkedin |-> <<>>]

WebStart ==
    /\ w_pc = "start"
    /\ w_browser = "none"
    /\ w_launches = 0
    /\ w_closes = 0
    /\ w_pageOpen = FALSE
    /\ w_emails = {}
    /\ w_phones = {}
    /\ w_links = <<>>
    /\ w_data = NoData
    /\ w_output = <<>>
    /\ w_exit = -1
    /\ w_fatal = "none"
    /\ w_log = {}

WebInit == w_url \in WebUrls /\ WebStart

\* the single-URL program does not run
WebIdle == w_url = <<>> /\ WebStart

\* web.py main lines 86-93: the url is given its scheme
WebMain ==
    /\ w_pc = "start"
    /\ w_url' = NormaliseUrl(w_url)
    /\ w_pc' = "launch"
    /\ UNCHANGED <<w_browser, w_launches, w_closes, w_pageOpen, w_emails,
                   w_phones, w_links, w_data, w_output, w_exit, w_fatal>>
    /\ UNCHANGED <<batchVars, appVars>>
    /\ UNCHANGED w_log

\* extract_contact_info line 41: the session is launched
WebLaunch ==
    /\ w_pc = "launch"
    /\ w_browser' = "open"
    /\ w_launches' = w_launches + 1
    /\ w_pc' = "new_page"
    /\ UNCHANGED <<w_url, w_closes, w_pageOpen, w_emails, w_phones, w_links,
                   w_data, w_output, w_exit, w_fatal>>
    /\ UNCHANGED <<batchVars, appVars>>
    /\ UNCHANGED w_log

\* extract_contact_info line 42: browser.new_page() stands before the try, so
\* its exception leaves extract_contact_info and main; nothing is written
WebNewPage ==
    /\ w_pc = "new_page"
    /\ \/ /\ w_pageOpen' = TRUE
          /\ w_pc' = "goto"
          /\ UNCHANGED <<w_exit, w_fatal>>
       \/ /\ w_pc' = "crashed"
          /\ w_exit' = 1
          /\ w_fatal' = "new_page"
          /\ UNCHANGED w_pageOpen
    /\ UNCHANGED <<w_url, w_browser, w_launches, w_closes, w_emails, w_phones,
                   w_links, w_data, w_output>>
    /\ UNCHANGED <<batchVars, appVars>>
    /\ UNCHANGED w_log

\* extract_contact_info line 44: page.goto(url)
WebGoto ==
    /\ w_pc = "goto"
    /\ \/ w_pc' = "content"
       \/ w_pc' = "except"
    /\ UNCHANGED <<w_url, w_browser, w_launches, w_closes, w_pageOpen, w_emails,
                   w_phones, w_links, w_data, w_output, w_exit, w_fatal>>
    /\ UNCHANGED <<batchVars, appVars>>
    /\ UNCHANGED w_log

\* extract_contact_info lines 45-52: the text, its matches, the kept phones
WebContent ==
    /\ w_pc = "content"
    /\ \/ /\ \E raw_phones \in SeqsUpTo(RawPhoneMatches, MaxRawPhones) :
                w_phones' = filter_phones(raw_phones)
          /\ w_emails' \in EmailSamples
          /\ w_pc' = "links"
       \/ /\ w_pc' = "except"
          /\ UNCHANGED <<w_emails, w_phones>>
    /\ UNCHANGED <<w_url, w_browser, w_launches, w_closes, w_pageOpen, w_links,
                   w_data, w_output, w_exit, w_fatal>>
    /\ UNCHANGED <<batchVars, appVars>>
    /\ UNCHANGED w_log

\* extract_contact_info lines 54-69: the links, the socials, the close of the
\* session and the returned dict
WebLinks ==
    /\ w_pc = "links"
    /\ \/ /\ w_links' \in SeqsUpTo(LinkSamples, MaxLinks)
          /\ \E emails \in Orderings(w_emails) :
             \E phones \in Orderings(w_phones) :
                LET socials == WebSocials(w_links')
                IN  w_data' = [email |-> emails, phone |-> phones,
                               facebook |-> socials.facebook,
                               instagram |-> socials.instagram,
                               linkedin |-> socials.linkedin]
          /\ w_browser' = "closed"
          /\ w_closes' = w_closes + 1
          /\ w_pageOpen' = FALSE
          /\ w_pc' = "write"
       \/ /\ w_pc' = "except"
          /\ UNCHANGED <<w_links, w_data, w_browser, w_closes, w_pageOpen>>
    /\ UNCHANGED <<w_url, w_launches, w_emails, w_phones, w_output, w_exit,
                   w_fatal>>
    /\ UNCHANGED <<batchVars, appVars>>
    /\ UNCHANGED w_log

\* extract_contact_info lines 70-79: the session is closed, the dict is empty
WebExcept ==
    /\ w_pc = "except"
    /\ w_browser' = "closed"
    /\ w_closes' = w_closes + 1
    /\ w_pageOpen' = FALSE
    /\ w_data' = NoData
    /\ w_pc' = "write"
    /\ UNCHANGED <<w_url, w_launches, w_emails, w_phones, w_links, w_output,
                   w_exit, w_fatal>>
    /\ UNCHANGED <<batchVars, appVars>>
    /\ w_log' = w_log \cup {"ERROR"}

\* web.py main lines 96-101: the header and the data row are written
WebWrite ==
    /\ w_pc = "write"
    /\ w_output' = <<[Website |-> w_url, Email |-> w_data.email,
                      Phone |-> w_data.phone, Facebook |-> w_data.facebook,
                      Instagram |-> w_data.instagram, LinkedIn |-> w_data.linkedin]>>
    /\ w_exit' = 0
    /\ w_pc' = "done"
    /\ UNCHANGED <<w_url, w_browser, w_launches, w_closes, w_pageOpen, w_emails,
                   w_phones, w_links, w_data, w_fatal>>
    /\ UNCHANGED <<batchVars, appVars>>
    /\ UNCHANGED w_log

WebNext ==
    \/ WebMain
    \/ WebLaunch
    \/ WebNewPage
    \/ WebGoto
    \/ WebContent
    \/ WebLinks
    \/ WebExcept
    \/ WebWrite

-----------------------------------------------------------------------------
(* app.py: the /scrape handler, one thread per request in one server process *)

NumRequests == 2
Requests == 1..NumRequests

\* what a request posts: a url, or a file under a client-chosen name
Posts ==
    {[kind |-> "url", name |-> ""]}
      \cup {[kind |-> "file", name |-> n] : n \in {"a.csv", "../a.csv", "b.csv"}}

\* werkzeug secure_filename: path separators and leading dots are removed
secure_filename(name) ==
    CASE name = "../a.csv" -> "a.csv"
      [] OTHER -> name

\* lines 23, 35-36: the paths, all under UPLOAD_FOLDER. os.getpid() is the
\* one server process's id, whatever the request.
OutputOfUrl == <<"output_", "pid", ".csv">>
InputPath(name) == <<secure_filename(name)>>
OutputPath(name) == <<secure_filename(name), "_output.csv">>
Uploads == {p \in Posts : p.kind = "file"}
Paths ==
    {OutputOfUrl} \cup {InputPath(p.name) : p \in Uploads}
      \cup {OutputPath(p.name) : p \in Uploads}

\* a file's content: the request whose handler or subprocess wrote it, and
\* the request whose upload the content was computed from; 0 stands for none
NoContent == [writer |-> 0, source |-> 0]
NoResponse == [status |-> 0, body |-> NoContent]

AppStart ==
    /\ a_pc = [r \in Requests |-> "start"]
    /\ a_out = [r \in Requests |-> <<>>]
    /\ a_files = [f \in Paths |-> NoContent]
    /\ a_resp = [r \in Requests |-> NoResponse]

AppInit == a_req \in [Requests -> Posts] /\ AppStart

\* the server handles no request
AppIdle == a_req = [r \in Requests |-> [kind |-> "url", name |-> ""]] /\ AppStart

\* scrape lines 21-23 and 32-38: the paths are computed, an upload is saved
Scrape(r) ==
    /\ a_pc[r] = "start"
    /\ \/ /\ a_req[r].kind = "url"
          /\ a_out' = [a_out EXCEPT ![r] = OutputOfUrl]
          /\ UNCHANGED a_files
       \/ /\ a_req[r].kind = "file"
          /\ a_out' = [a_out EXCEPT ![r] = OutputPath(a_req[r].name)]
          /\ a_files' = [a_files EXCEPT ![InputPath(a_req[r].name)] =
                            [writer |-> r, source |-> r]]
    /\ a_pc' = [a_pc EXCEPT ![r] = "subprocess"]
    /\ UNCHANGED <<a_req, a_resp>>
    /\ UNCHANGED <<batchVars, webVars>>

\* scrape lines 24 and 39: subprocess.run of web.py or process.py, which
\* writes the output file and returns 0, or fails and writes nothing
Subprocess(r) ==
    /\ a_pc[r] = "subprocess"
    /\ \/ /\ a_files' = [a_files EXCEPT ![a_out[r]] =
                [writer |-> r,
                 source |-> IF a_req[r].kind = "file"
                            THEN a_files[InputPath(a_req[r].name)].source
                            ELSE r]]
          /\ a_pc' = [a_pc EXCEPT ![r] = "send"]
          /\ UNCHANGED a_resp
       \/ /\ a_pc' = [a_pc EXCEPT ![r] = "done"]
          /\ a_resp' = [a_resp EXCEPT ![r] = [status |-> 500, body |-> NoContent]]
          /\ UNCHANGED a_files
    /\ UNCHANGED <<a_req, a_out>>
    /\ UNCHANGED <<batchVars, webVars>>

\* scrape lines 29 and 44: send_file reads the output path
SendFile(r) ==
    /\ a_pc[r] = "send"
    /\ a_resp' = [a_resp EXCEPT ![r] = [status |-> 200, body |-> a_files[a_out[r]]]]
    /\ a_pc' = [a_pc EXCEPT ![r] = "done"]
    /\ UNCHANGED <<a_req, a_out, a_files>>
    /\ UNCHANGED <<batchVars, webVars>>

AppNext == \E r \in Requests : Scrape(r) \/ Subprocess(r) \/ SendFile(r)

-----------------------------------------------------------------------------
(* Specifications *)

\* the batch program
Init == BatchInit /\ WebIdle /\ AppIdle
Next == BatchNext
Spec == Init /\ [][Next]_vars

\* the single-URL program
InitWeb == BatchIdle /\ WebInit /\ AppIdle
NextWeb == WebNext
SpecWeb == InitWeb /\ [][NextWeb]_vars

\* the server with its concurrent requests
InitApp == BatchIdle /\ WebIdle /\ AppInit
NextApp == AppNext
SpecApp == InitApp /\ [][NextApp]_vars

-----------------------------------------------------------------------------
(* Properties *)

Ended == pc \in {"done", "exited"}
WebEnded == w_pc \in {"done", "crashed"}
InputErrors == {"file_not_found", "unreadable", "no_column", "no_targets"}

IsEmptyRecord(r) ==
    /\ r.emails = <<>>
    /\ r.phones = <<>>
    /\ r.facebook = <<>>
    /\ r.instagram = <<>>
    /\ r.linkedin = <<>>

C3_PagesClosedPerTarget ==
    /\ openPages \subseteq {idx}
    /\ Cardinality(openPages) <= 1
    /\ pc \in {"read", "select", "extract", "launch", "loop", "new_page",
               "close_browser", "write", "done"} => openPages = {}

\* C3 witness: the first target's step has returned through the error exit,
\* with the debug files written from its open page, and the page is closed
C3_Witness ==
    /\ pc = "loop"
    /\ Len(results) = 1
    /\ {"ERROR", "SAVED"} \subseteq log
    /\ openPages = {}

\* the input error of an input file, "none" if it has none
InputErrorOf(f) ==
    IF f.state = "missing" THEN "file_not_found"
    ELSE IF f.state = "corrupt" THEN "unreadable"
    ELSE LET sel == SelectColumnOf(f.table)
         IN  IF sel[1] = 0 \/ sel[2] = 0 THEN "no_column"
             ELSE IF ExtractTargetsOf(f.table[sel[1]]) = <<>> THEN "no_targets"
             ELSE "none"

\* the run is past the validation of its input
Validated ==
    /\ input_file.state = "ok"
    /\ url_column # 0
    /\ max_score > 0
    /\ urls # <<>>
    /\ fatal \notin InputErrors

\* C5: a run that ended on an input error exited with status 1 without any
\* launch, page or record, and the error is the one its input has; a run
\* whose input has an input error never reaches the launch; and once the
\* session is launched the validation has passed, so no input error occurs
C5_InputErrorsBeforeLaunch ==
    /\ fatal \in InputErrors =>
          /\ fatal = InputErrorOf(input_file)
          /\ pc = "exited"
          /\ exit_code = 1
          /\ launches = 0
          /\ browser = "none"
          /\ openPages = {}
          /\ results = <<>>
          /\ ~ output_file.written
    /\ pc = "launch" => InputErrorOf(input_file) = "none"
    /\ pc \notin {"read", "select", "extract", "exited"} => Validated
    /\ launches > 0 => Validated

\* C5 witness: a table whose chosen column scores but yields no target
C5_Witness ==
    /\ pc = "exited"
    /\ fatal = "no_targets"
    /\ max_score > 0

\* the records the extraction can give for a loaded page
RecordsOf(u, pg) ==
    {MakeRecord(u, e, p, BatchSocials(pg.links)) :
        e \in Orderings(pg.emails), p \in Orderings(BatchPhones(pg.phones))}

\* a step taken from the contact-page hop
HopStepStaysInTry ==
    pc \in {"get_href", "goto_contact"} =>
        /\ pc' \in {"goto_contact", "content"}
        /\ "ERROR" \notin log'
        /\ debug_files' = debug_files
        /\ openPages' = openPages

\* C9: a step of the contact-page hop never enters the error handler, writes
\* no debug file and closes no page, whatever its outcome; and a step that
\* had a hop failure and no later error returns the record extracted from
\* the page that is loaded
C9_HopFailureSwallowed ==
    /\ [][HopStepStaysInTry]_vars
    /\ []((pc = "finally" /\ "DEBUG_NO_CONTACT" \in log /\ "ERROR" \notin log)
            => retval \in RecordsOf(url, loaded))

\* C9 witness: the contact link was found, the navigation to it failed, and
\* the step returned a record that has a phone
C9_Witness ==
    /\ pc = "loop"
    /\ {"INFO_CONTACT", "DEBUG_NO_CONTACT"} \subseteq log
    /\ "ERROR" \notin log
    /\ Len(results) >= 1
    /\ results[Len(results)].phones # <<>>

\* C2: a run that launched a session has, when it ends, launched it once and
\* closed it exactly once, in the batch program and in the single-URL program
C2_SessionClosedOnce ==
    /\ (Ended /\ launches > 0) => (launches = 1 /\ closes = 1 /\ browser = "closed")
    /\ (WebEnded /\ w_launches > 0) =>
          (w_launches = 1 /\ w_closes = 1 /\ w_browser = "closed")

\* C4: a failure of page opening, navigation, content capture or link query
\* does not leave the target's step: the run ends with the target's record
\* written, the record of a failed step has empty fields, and a batch run
\* whose last step failed still runs to its end
C4_FailureGivesEmptyRecord ==
    /\ WebEnded =>
          /\ w_fatal = "none"
          /\ Len(w_output) = 1
          /\ "ERROR" \in w_log =>
                /\ w_output[1].Email = <<>>
                /\ w_output[1].Phone = <<>>
                /\ w_output[1].Facebook = <<>>
                /\ w_output[1].Instagram = <<>>
                /\ w_output[1].LinkedIn = <<>>
    /\ (pc = "loop" /\ "ERROR" \in log) => IsEmptyRecord(results[Len(results)])
    /\ (Ended /\ "ERROR" \in log) => pc = "done"

\* the first link, in link order, that matches the platform's pattern
RECURSIVE FirstMatch(_, _)
FirstMatch(platform, links) ==
    IF links = <<>> THEN <<>>
    ELSE IF PatternSearch(platform, Head(links)) THEN Head(links)
    ELSE FirstMatch(platform, Tail(links))

\* C6: each platform's field is the first link that matches the platform's
\* pattern, or empty, in the batch program and in the single-URL program
C6_FirstMatchPerPlatform ==
    /\ (pc = "finally" /\ "ERROR" \notin log) =>
          /\ retval.facebook = FirstMatch("facebook", loaded.links)
          /\ retval.instagram = FirstMatch("instagram", loaded.links)
          /\ retval.linkedin = FirstMatch("linkedin", loaded.links)
    /\ (w_pc \in {"write", "done"} /\ "ERROR" \notin w_log) =>
          /\ w_data.facebook = FirstMatch("facebook", w_links)
          /\ w_data.instagram = FirstMatch("instagram", w_links)
          /\ w_data.linkedin = FirstMatch("linkedin", w_links)

\* a phone value that no discard rule applies to
NotDiscarded(p) ==
    /\ ~ web_is_date(p)
    /\ ~ IsRange(p)
    /\ Len(FilterChars(p, Digits)) >= MinDigits

\* C7: no phone of a record is date-like or a range, and each has at least
\* eight digits, in the batch program and in the single-URL program
C7_NoDiscardedPhone ==
    /\ \A k \in 1..Len(results) :
          \A j \in 1..Len(results[k].phones) : NotDiscarded(results[k].phones[j])
    /\ \A j \in 1..Len(w_data.phone) : NotDiscarded(w_data.phone[j])

\* C8: a run that launched the session ends with a record for every target,
\* the session closed and the output file written, also when page.close()
\* raised
C8_CloseFailureContinues ==
    (Ended /\ launches > 0) =>
        /\ Len(results) = Len(urls)
        /\ browser = "closed"
        /\ output_file.written

\* C10: a response that carries a file carries the file written by the
\* subprocess of its own request
C10_OwnOutputReturned ==
    \A r \in Requests : a_resp[r].status = 200 => a_resp[r].body.writer = r

=============================================================================
